---- MODULE Spec2Model ----
(***************************************************************************)
(* remoteTerm: a serial-console bridge (src/remote_term.py).  Four worker  *)
(* threads (socket_input, keyboard_input, writer, reader) share one queue  *)
(* tx_q, the flag alive and the filter instances of the transformation     *)
(* chain.  Text is modelled as a sequence of one-character strings.        *)
(***************************************************************************)
EXTENDS Integers, Sequences, FiniteSets, TLC

(* ------------------------------------------------------------------ *)
(* Bounds of the model                                                 *)
(* ------------------------------------------------------------------ *)
\* events of the environment in one run: keys, network requests, chunks of
\* device output, device failures
MaxInputs == 3
\* the same, in the runs checked for liveness and in the runs over all configurations
LiveInputs == 2
\* config TERATERM_TTL/regex_timeout_sec, counted in 0.1 s polls of the wait loop
TimeoutPolls == 1
\* times the shutdown sequence (join, close) is run to its end
MaxShutdowns == 2
\* longest name or line body enumerated for the transmit pipeline alone
MaxBody == 3

(* ------------------------------------------------------------------ *)
(* Text                                                                *)
(* ------------------------------------------------------------------ *)
LF == <<"\n">>
CR == <<"\r">>
CRLFs == <<"\r", "\n">>
\* the characters '\x08', chr(0x1d) and chr(0x14), each one element of a text
BS == "<BS>"
\* the literal "kieny_"
Marker == <<"k", "i", "e", "n", "y", "_">>
ExitChar == "<GS>"
MenuChar == "<DC4>"

StartsWith(t, p) == Len(t) >= Len(p) /\ SubSeq(t, 1, Len(p)) = p
EndsWith(t, p) == Len(t) >= Len(p) /\ SubSeq(t, Len(t) - Len(p) + 1, Len(t)) = p
Drop(t, n) == SubSeq(t, n + 1, Len(t))
\* text[:-1]
DropLast(t) == SubSeq(t, 1, Len(t) - 1)
\* '\x08' * n
Repeat(c, n) == [i \in 1..n |-> c]

\* str.replace(old, new): left to right, non-overlapping
RECURSIVE Replace(_, _, _)
Replace(t, old, new) ==
    IF t = <<>> THEN <<>>
    ELSE IF StartsWith(t, old) THEN new \o Replace(Drop(t, Len(old)), old, new)
    ELSE <<t[1]>> \o Replace(Tail(t), old, new)

WhiteSpace == {" ", "\t", "\n", "\r"}
RECURSIVE LStrip(_)
LStrip(t) == IF t # <<>> /\ t[1] \in WhiteSpace THEN LStrip(Tail(t)) ELSE t
RECURSIVE RStrip(_)
RStrip(t) == IF t # <<>> /\ t[Len(t)] \in WhiteSpace THEN RStrip(DropLast(t)) ELSE t
\* str.strip()
Strip(t) == RStrip(LStrip(t))
\* arg.strip()[1:-1]
Unquote(arg) == LET s == Strip(arg) IN SubSeq(s, 2, Len(s) - 1)

\* "\n" in text
HasNewline(t) == \E i \in 1..Len(t) : t[i] = "\n"
\* text.split("\n")
RECURSIVE Split(_, _)
Split(t, acc) ==
    IF t = <<>> THEN <<acc>>
    ELSE IF t[1] = "\n" THEN <<acc>> \o Split(Tail(t), <<>>)
    ELSE Split(Tail(t), Append(acc, t[1]))

\* len(re.findall(pattern, line)) > 0, for the literal patterns of this model:
\* the empty pattern matches at every position of every line
Contains(line, pat) ==
    \E i \in 1..(Len(line) - Len(pat) + 1) : SubSeq(line, i, i + Len(pat) - 1) = pat
Matches(pat, line) == pat = <<>> \/ Contains(line, pat)

(* ------------------------------------------------------------------ *)
(* Configuration (serial.cfg)                                          *)
(* ------------------------------------------------------------------ *)
NameLs == <<"l", "s">>
NameKLs == Marker \o <<"l", "s">>
\* alias_dict = dict(config.items("ALIAS")): two entries, one of them a name
\* that begins with the letters of the keyboard marker
AliasDict == (NameLs :> <<"l", "i", "s", "t">>) @@ (NameKLs :> <<"k", "l">>)

\* config MISC/filter, split on ";"
FilterConfigs == {<<"alias", "ttl">>, <<"ttl", "alias">>}

(* ------------------------------------------------------------------ *)
(* Transformations: the transmit mappings                              *)
(* ------------------------------------------------------------------ *)
\* EOL_TRANSFORMATIONS['crlf'].tx
CrlfTx(text) == Replace(text, LF, CRLFs)

\* Alias.tx
AliasTx(text0) ==
    LET text == Replace(text0, CRLFs, LF) IN
    IF EndsWith(text, LF) THEN
        IF StartsWith(text, Marker) THEN
            LET t == Drop(text, Len(Marker))
                text_strip == DropLast(t)
                backspace_position == Len(text_strip)
            IN  IF backspace_position # 0 /\ text_strip \in DOMAIN AliasDict
                THEN Repeat(BS, backspace_position) \o AliasDict[text_strip] \o LF
                ELSE LF
        ELSE
            LET text_strip == DropLast(text)
            IN  IF text_strip \in DOMAIN AliasDict
                THEN AliasDict[text_strip] \o LF
                ELSE text
    ELSE text

KeySendln == <<"s", "e", "n", "d", "l", "n", " ">>
KeyPause == <<"p", "a", "u", "s", "e", " ">>
KeyWaitregex == <<"w", "a", "i", "t", "r", "e", "g", "e", "x">>

\* TeraTermCommandLine.tx.ttl_send_command
ttl_send_command(arg) == Unquote(arg)

Digits == {"0", "1", "2", "3", "4", "5", "6", "7", "8", "9"}
\* time.sleep(int(arg)) raises ValueError: int() of a text that is no decimal
\* number, or sleep() of a negative one
PauseRaises(arg) ==
    LET s == Strip(arg)
        body == IF s # <<>> /\ s[1] \in {"+", "-"} THEN Tail(s) ELSE s
    IN  \/ body = <<>>
        \/ \E i \in 1..Len(body) : body[i] \notin Digits
        \/ s[1] = "-" /\ \E i \in 1..Len(body) : body[i] # "0"

\* a wait that hands its argument on as text to transmit
TtlWaitResultArg(arg) == arg
\* what ttl_wait_regex returns (its finally clause)
TtlWaitResult(arg) == <<>>

\* One call transformation.tx(text) of the writer's loop, up to the point where
\* it returns, raises or blocks: kind "text" (returned text), "raise", "pause"
\* (inside time.sleep) or "wait" (inside ttl_wait_regex, arg kept).
TtlTx(text) ==
    IF StartsWith(text, KeySendln)
    THEN [kind |-> "text", text |-> ttl_send_command(Drop(text, Len(KeySendln)))]
    ELSE IF StartsWith(text, KeyPause)
    THEN IF PauseRaises(Drop(text, Len(KeyPause)))
         THEN [kind |-> "raise", text |-> text]
         ELSE [kind |-> "pause", text |-> <<>>]
    ELSE IF StartsWith(text, KeyWaitregex)
    THEN [kind |-> "wait", text |-> Drop(text, Len(KeyWaitregex))]
    ELSE [kind |-> "text", text |-> text]

TxCall(cls, text) ==
    CASE cls = "crlf" -> [kind |-> "text", text |-> CrlfTx(text)]
      [] cls = "alias" -> [kind |-> "text", text |-> AliasTx(text)]
      [] cls = "ttl" -> TtlTx(text)
      [] OTHER -> [kind |-> "text", text |-> text]

\* transformations = [EOL_TRANSFORMATIONS[self.eol]] + [TRANSFORMATIONS[f] ...]
Transformations(filters) == <<"crlf">> \o filters

Reverse(s) == [i \in 1..Len(s) |-> s[Len(s) + 1 - i]]

\* a receive list in the order of the transmit list
UpdateTransformationsSameOrder(filters) ==
    LET classes == <<"crlf">> \o filters
        tx == [i \in 1..Len(classes) |-> [id |-> i, cls |-> classes[i]]]
    IN  [tx |-> tx, rx |-> tx]
\* RemoteTerm.update_transformations: one instance per class of the list, the
\* receive list the same instances reversed.  An instance is [id, cls].
UpdateTransformations(filters) ==
    LET classes == Transformations(filters)
        tx == [i \in 1..Len(classes) |-> [id |-> i, cls |-> classes[i]]]
    IN  [tx |-> tx, rx |-> Reverse(tx)]

\* EOL_TRANSFORMATIONS['crlf'].rx
CrlfRx(text) == Replace(text, CRLFs, LF)

\* One call transformation.rx(text) that returns: Alias.rx and
\* TeraTermCommandLine.rx return the text they were given
RxCall(cls, text) == IF cls = "crlf" THEN CrlfRx(text) ELSE text

\* The reader's loop over rx_transformations run to its end on one text, the
\* calls of the instances in raised leaving text as it was
RECURSIVE RxChain(_, _, _)
RxChain(chain, text, raised) ==
    IF chain = <<>> THEN text
    ELSE RxChain(Tail(chain),
                 IF Head(chain).id \in raised THEN text ELSE RxCall(Head(chain).cls, text),
                 raised)

\* The writer's loop over tx_transformations run to its end on one fragment,
\* with a pause slept through and a wait ended: [text, raised].
RECURSIVE TxChain(_, _)
TxChain(chain, text) ==
    IF chain = <<>> THEN [text |-> text, raised |-> FALSE]
    ELSE LET r == TxCall(Head(chain).cls, text) IN
         CASE r.kind = "raise" -> [text |-> text, raised |-> TRUE]
           [] r.kind = "wait" -> TxChain(Tail(chain), TtlWaitResult(r.text))
           [] OTHER -> TxChain(Tail(chain), r.text)

(* ------------------------------------------------------------------ *)
(* keyboard_input: one pass of the loop body on one key                *)
(* ------------------------------------------------------------------ *)
\* [command_in, menu_active, put: the texts put on tx_q, exit: os.kill reached]
KbStep(command_in, menu_active, key_in) ==
    LET acc == Append(command_in, key_in) IN
    IF menu_active
    THEN [command_in |-> acc, menu_active |-> FALSE, put |-> <<>>, exit |-> FALSE]
    ELSE IF key_in = MenuChar
    THEN [command_in |-> acc, menu_active |-> TRUE, put |-> <<>>, exit |-> FALSE]
    ELSE IF key_in = ExitChar
    THEN [command_in |-> acc, menu_active |-> FALSE, put |-> <<>>, exit |-> TRUE]
    ELSE IF key_in \in {"\r", "\n"}
    THEN [command_in |-> Marker, menu_active |-> FALSE, put |-> <<acc>>, exit |-> FALSE]
    ELSE [command_in |-> acc, menu_active |-> FALSE,
          put |-> <<<<key_in>>>>, exit |-> FALSE]

\* socket_input: the text put on tx_q for a received payload
SocketFragment(payload) == payload \o LF

\* the texts keyboard_input puts on tx_q for the keys typed, in order
RECURSIVE KbRun(_, _, _, _)
KbRun(command_in, menu_active, keys, puts) ==
    IF keys = <<>> THEN puts
    ELSE LET r == KbStep(command_in, menu_active, Head(keys)) IN
         IF r.exit THEN puts
         ELSE KbRun(r.command_in, r.menu_active, Tail(keys), puts \o r.put)

(* ------------------------------------------------------------------ *)
(* The environment's inputs                                            *)
(* ------------------------------------------------------------------ *)
\* keys console.getkey() returns
KbKeys == {"l", "\n", ExitChar}
\* a payload command_in.decode('ascii') rejects: one byte above 0x7f
NonAscii == <<"<E9>">>
AsciiDecodable(payload) == \A i \in DOMAIN payload : payload[i] # "<E9>"
PayloadWait == KeyWaitregex \o <<" ", "'", "o", "k", "'">>
PayloadPause == KeyPause \o <<"1">>
\* a pause whose argument int() rejects
PayloadPauseBad == KeyPause \o <<"x">>
\* payloads socket.recv() returns
NetPayloads == {NameLs, PayloadWait, PayloadPause, PayloadPauseBad, NonAscii}
\* what serial.read() returns when it returns data
RxChunks == {<<"o", "k", "\r", "\n">>}

(* ------------------------------------------------------------------ *)
(* State                                                               *)
(* ------------------------------------------------------------------ *)
VARIABLES
    filters,            \* self.filters
    raw,                \* self.raw
    tx_transformations, \* self.tx_transformations
    rx_transformations, \* self.rx_transformations
    ttl,                \* per TeraTermCommandLine instance: regex_awaiting, cur_line, regex_match
    alive,              \* self.alive
    killed,             \* the process has been terminated by os.kill(os.getpid(), SIGTERM)
    mainPc,             \* main: "created", "join" (in join(False)), "join2" (in join()),
                        \* "close", "closed", "error" (left by an exception), "exited"
    joinIdx,            \* join(): the thread being joined, 5 once all four are joined
    shutdowns,          \* times join() and close() have been run to their end
    serialOpen,         \* self.serial.is_open
    logOpen,            \* Alias.log_file is open
    releases,           \* history: times the device and the log file have been released
    cancelReads,        \* history: times serial.cancel_read() has interrupted the device's read
    tx_q,               \* self.tx_q, each text with its producer and the producer's count
    kpc,                \* keyboard_input: "idle", "loop", "getkey", "done"
    command_in,         \* keyboard_input's local command_in
    menu_active,        \* keyboard_input's local menu_active
    cancelled,          \* console.cancel() has been called
    kbSeq,              \* fragments put by keyboard_input so far
    spc,                \* socket_input: "idle", "recv", "send", "done"
    nNet,               \* requests received so far
    inputsLeft,         \* events the environment may still produce
    acks,               \* replies sent so far
    wpc,                \* writer's position
    wfrag,              \* writer's local c, with its producer and count
    wtext,              \* writer's local text
    wi,                 \* writer's index into tx_transformations
    warg,               \* ttl_wait_regex's arg
    welapsed,           \* polls slept in the wait loop since _start
    wwaited,            \* the current fragment went through ttl_wait_regex
    wvia,               \* history: the instances whose tx the current fragment went through
    pauseMark,          \* history: what the other workers had done when the pause began
    rpc,                \* reader's position
    rtext,              \* reader's local text
    ri,                 \* reader's index into rx_transformations
    rlines,             \* TeraTermCommandLine.rx: the lines still to test
    rvia,               \* history: the instances whose rx the current text went through
    rhist,              \* history: the data the current text was read as, the rx that raised on it
    enq,                \* history: the fragments put on tx_q
    deq,                \* history: the fragments the writer has taken from tx_q
    written,            \* history: the serial writes, each with the fragment it came from
    waitEnds,           \* history: how waits have ended ("match", "timeout")
    console,            \* history: the console writes of the reader
    pureIn,             \* the transmit pipeline alone: the input
    pureOut             \* the transmit pipeline alone: the result

confVars == <<filters, raw, tx_transformations, rx_transformations>>
devVars == <<shutdowns, serialOpen, logOpen, releases, cancelReads>>
mainVars == <<mainPc, joinIdx, devVars>>
kbVars == <<kpc, command_in, menu_active, kbSeq>>
sockVars == <<spc, nNet, acks>>
writerVars == <<wpc, wfrag, wtext, wi, warg, welapsed, wwaited, wvia, pauseMark>>
readerVars == <<rpc, rtext, ri, rlines, rvia, rhist>>
histVars == <<enq, deq, written, waitEnds, console>>
pureVars == <<pureIn, pureOut>>
vars == <<confVars, ttl, alive, killed, mainVars, tx_q, kbVars, cancelled, sockVars,
          writerVars, readerVars, inputsLeft, histVars, pureVars>>

NoMark == [enq |-> 0, acks |-> 0, console |-> 0]
NoRead == [data |-> <<>>, raised |-> {}]
NoFrag == [src |-> "none", n |-> 0, text |-> <<>>]
NoPureIn == [origin |-> "none", text |-> <<>>, term |-> "\n", at |-> 0]
NoPureOut == [done |-> FALSE, frags |-> <<>>, outs |-> <<>>]
\* class attributes of TeraTermCommandLine
TtlInit == [regex_awaiting |-> <<>>, cur_line |-> <<>>, regex_match |-> FALSE]
Range(s) == {s[i] : i \in DOMAIN s}

\* RemoteTerm.__init__ for one configuration; no thread exists yet
InitSession(f, r, inputs) ==
    LET t == UpdateTransformations(f) IN
    /\ filters = f
    /\ raw = r
    /\ tx_transformations = t.tx
    /\ rx_transformations = t.rx
    /\ ttl = [i \in {x.id : x \in Range(t.tx) \cup Range(t.rx)} |-> TtlInit]
    /\ alive = FALSE
    /\ killed = FALSE
    /\ mainPc = "created"
    /\ joinIdx = 1
    /\ shutdowns = 0 /\ serialOpen = TRUE /\ logOpen = TRUE
    /\ releases = [serial |-> 0, log |-> 0] /\ cancelReads = 0
    /\ tx_q = <<>>
    /\ kpc = "idle" /\ command_in = Marker /\ menu_active = FALSE
    /\ cancelled = FALSE /\ kbSeq = 0 /\ inputsLeft = inputs
    /\ spc = "idle" /\ nNet = 0 /\ acks = 0
    /\ wpc = "idle" /\ wfrag = NoFrag /\ wtext = <<>> /\ wi = 1
    /\ warg = <<>> /\ welapsed = 0 /\ wwaited = FALSE /\ wvia = <<>>
    /\ pauseMark = NoMark
    /\ rpc = "idle" /\ rtext = <<>> /\ ri = 1 /\ rlines = <<>> /\ rvia = <<>>
    /\ rhist = NoRead
    /\ enq = <<>> /\ deq = <<>> /\ written = <<>> /\ waitEnds = {}
    /\ console = <<>>

\* the session of one configuration: the alias filter, then the script filter
Init ==
    /\ InitSession(<<"alias", "ttl">>, FALSE, MaxInputs)
    /\ pureIn = NoPureIn /\ pureOut = NoPureOut

\* the same session with fewer events, for the liveness properties
LiveInit ==
    /\ InitSession(<<"alias", "ttl">>, FALSE, LiveInputs)
    /\ pureIn = NoPureIn /\ pureOut = NoPureOut

\* the session of every configuration: each filter list, raw or not
ConfInit ==
    /\ \E f \in FilterConfigs, r \in BOOLEAN : InitSession(f, r, LiveInputs)
    /\ pureIn = NoPureIn /\ pureOut = NoPureOut

(* ------------------------------------------------------------------ *)
(* main and RemoteTerm.start / join                                    *)
(* ------------------------------------------------------------------ *)
\* RemoteTerm.start: alive = True, then the four threads are started
Start ==
    /\ ~killed /\ mainPc = "created"
    /\ alive' = TRUE
    /\ spc' = "recv" /\ kpc' = "loop" /\ rpc' = "loop" /\ wpc' = "loop"
    /\ mainPc' = "join"
    /\ UNCHANGED <<devVars, rhist, pauseMark, confVars, ttl, killed, joinIdx, tx_q,
                   command_in, menu_active, kbSeq, cancelled, nNet, acks, wfrag, wtext, wi,
                   warg, welapsed, wwaited, rtext, ri, rlines, histVars, inputsLeft,
                   pureVars, wvia, rvia>>

\* the threads in the order join() joins them
JoinOrder == <<"keyboard", "socket", "transmitter", "receiver">>
\* a thread.join() that returns at once
ThreadDoneAlways(t) == TRUE
\* thread.join() returns once the thread's function has returned or raised
ThreadDone(t) ==
    CASE t = "keyboard" -> kpc = "done"
      [] t = "socket" -> spc = "done"
      [] t = "transmitter" -> wpc = "done"
      [] t = "receiver" -> rpc = "done"

\* RemoteTerm.join: one thread.join() returning
Join ==
    /\ ~killed /\ mainPc \in {"join", "join2"}
    /\ joinIdx <= Len(JoinOrder)
    /\ ThreadDone(JoinOrder[joinIdx])
    /\ joinIdx' = joinIdx + 1
    /\ cancelReads' = IF JoinOrder[joinIdx] = "transmitter" /\ serialOpen
                      THEN cancelReads + 1 ELSE cancelReads
    /\ UNCHANGED <<confVars, ttl, alive, killed, mainPc, shutdowns, serialOpen, logOpen,
                   releases, tx_q, kbVars, cancelled, sockVars, writerVars, readerVars,
                   histVars, inputsLeft, pureVars>>

\* transmitter_thread.join() returns and self.serial.cancel_read() is called on
\* a device that has been closed: what then happens is the serial backend's
\* affair, it does nothing (Join) or it raises, and the exception leaves join()
JoinCancelRaises ==
    /\ ~killed /\ mainPc \in {"join", "join2"}
    /\ joinIdx <= Len(JoinOrder)
    /\ JoinOrder[joinIdx] = "transmitter" /\ ThreadDone("transmitter")
    /\ ~serialOpen
    /\ mainPc' = "error"
    /\ UNCHANGED <<confVars, ttl, alive, killed, joinIdx, devVars, tx_q, kbVars, cancelled,
                   sockVars, writerVars, readerVars, histVars, inputsLeft, pureVars>>

\* join() returns: main goes on to its second join(), then to close()
JoinReturn ==
    /\ ~killed /\ mainPc \in {"join", "join2"}
    /\ joinIdx > Len(JoinOrder)
    /\ mainPc' = IF mainPc = "join" THEN "join2" ELSE "close"
    /\ joinIdx' = 1
    /\ UNCHANGED <<confVars, ttl, alive, killed, devVars, tx_q, kbVars, cancelled,
                   sockVars, writerVars, readerVars, histVars, inputsLeft, pureVars>>

\* KeyboardInterrupt inside join(False): except KeyboardInterrupt: pass; join()
JoinInterrupt ==
    /\ ~killed /\ mainPc = "join"
    /\ joinIdx <= Len(JoinOrder)
    /\ inputsLeft > 0
    /\ inputsLeft' = inputsLeft - 1
    /\ mainPc' = "join2"
    /\ joinIdx' = 1
    /\ UNCHANGED <<confVars, ttl, alive, killed, devVars, tx_q, kbVars, cancelled,
                   sockVars, writerVars, readerVars, histVars, pureVars>>

\* remoteTerm.close(): self.serial.close(), which releases the device if it is open
Close ==
    /\ ~killed /\ mainPc = "close"
    /\ serialOpen' = FALSE
    /\ releases' = IF serialOpen THEN [releases EXCEPT !.serial = @ + 1] ELSE releases
    /\ shutdowns' = shutdowns + 1
    /\ mainPc' = "closed"
    /\ UNCHANGED <<confVars, ttl, alive, killed, joinIdx, logOpen, cancelReads, tx_q,
                   kbVars, cancelled, sockVars, writerVars, readerVars, histVars,
                   inputsLeft, pureVars>>

\* join() and close() called once more on the closed session
ShutdownAgain ==
    /\ ~killed /\ mainPc = "closed"
    /\ shutdowns < MaxShutdowns
    /\ mainPc' = "join2"
    /\ joinIdx' = 1
    /\ UNCHANGED <<confVars, ttl, alive, killed, devVars, tx_q, kbVars, cancelled,
                   sockVars, writerVars, readerVars, histVars, inputsLeft, pureVars>>

\* main returns or raises and the interpreter exits: atexit runs Alias.cleanup
AtExit ==
    /\ ~killed /\ mainPc \in {"closed", "error"}
    /\ logOpen' = FALSE
    /\ releases' = IF logOpen THEN [releases EXCEPT !.log = @ + 1] ELSE releases
    /\ mainPc' = "exited"
    /\ UNCHANGED <<confVars, ttl, alive, killed, joinIdx, shutdowns, serialOpen,
                   cancelReads, tx_q, kbVars, cancelled, sockVars, writerVars, readerVars,
                   histVars, inputsLeft, pureVars>>

\* main's steps after start()
MainNext == Join \/ JoinReturn \/ Close \/ AtExit

\* a join() has returned (or is about to)
JoinComplete ==
    \/ joinIdx > Len(JoinOrder)
    \/ mainPc \in {"close", "closed", "exited"}
    \/ shutdowns >= 1

(* ------------------------------------------------------------------ *)
(* The command queue                                                   *)
(* ------------------------------------------------------------------ *)
\* Queue.put
QPut(q, frag) == Append(q, frag)
\* a queue that hands out its newest item first
QGetNewest(q) == [item |-> q[Len(q)], rest |-> SubSeq(q, 1, Len(q) - 1)]
\* a get that empties the queue
QGetDrop(q) == [item |-> Head(q), rest |-> <<>>]
\* Queue.get on a non-empty queue: the item taken and the queue left
QGet(q) == [item |-> Head(q), rest |-> Tail(q)]

(* ------------------------------------------------------------------ *)
(* keyboard_input                                                      *)
(* ------------------------------------------------------------------ *)
\* while self.alive
KbCheckAlive ==
    /\ ~killed /\ kpc = "loop"
    /\ kpc' = IF alive THEN "getkey" ELSE "done"
    /\ UNCHANGED <<confVars, ttl, alive, killed, mainVars, tx_q, command_in, menu_active,
                   kbSeq, cancelled, sockVars, writerVars, readerVars, histVars,
                   inputsLeft, pureVars>>

\* the loop body on the key getkey() returned
KbHandle(key_in) ==
    LET r == KbStep(command_in, menu_active, key_in) IN
    /\ command_in' = r.command_in
    /\ menu_active' = r.menu_active
    /\ kbSeq' = kbSeq + Len(r.put)
    /\ tx_q' = IF r.put = <<>> THEN tx_q
               ELSE QPut(tx_q, [src |-> "kb", n |-> kbSeq + 1, text |-> r.put[1]])
    /\ enq' = IF r.put = <<>> THEN enq
              ELSE Append(enq, [src |-> "kb", n |-> kbSeq + 1, text |-> r.put[1]])
    /\ killed' = r.exit
    /\ kpc' = IF r.exit THEN "done" ELSE "loop"

KbKey ==
    /\ ~killed /\ kpc = "getkey" /\ inputsLeft > 0
    /\ \E key_in \in KbKeys : KbHandle(key_in)
    /\ inputsLeft' = inputsLeft - 1
    /\ UNCHANGED <<confVars, ttl, alive, mainVars, cancelled, sockVars, writerVars,
                   readerVars, deq, written, waitEnds, pureVars, console>>

\* getkey() returning because of console.cancel(): with no key (the += then
\* raises and the thread ends) or with the key "\n" the console posts to itself
KbCancelled ==
    /\ ~killed /\ kpc = "getkey" /\ cancelled
    /\ cancelled' = FALSE
    /\ \/ /\ kpc' = "done"
          /\ UNCHANGED <<command_in, menu_active, kbSeq, tx_q, enq, killed>>
       \/ KbHandle("\n")
    /\ UNCHANGED <<confVars, ttl, alive, mainVars, sockVars, writerVars, readerVars, deq,
                   written, waitEnds, inputsLeft, pureVars, console>>

(* ------------------------------------------------------------------ *)
(* socket_input                                                        *)
(* ------------------------------------------------------------------ *)
\* socket.recv() returns a request; decode; tx_q.put
SockRecv ==
    /\ ~killed /\ spc = "recv" /\ inputsLeft > 0
    /\ \E payload \in NetPayloads :
         IF AsciiDecodable(payload)
         THEN /\ tx_q' = QPut(tx_q, [src |-> "net", n |-> nNet + 1,
                                     text |-> SocketFragment(payload)])
              /\ enq' = Append(enq, [src |-> "net", n |-> nNet + 1,
                                      text |-> SocketFragment(payload)])
              /\ spc' = "send"
         ELSE /\ spc' = "done"
              /\ UNCHANGED <<tx_q, enq>>
    /\ nNet' = nNet + 1
    /\ inputsLeft' = inputsLeft - 1
    /\ UNCHANGED <<confVars, ttl, alive, killed, mainVars, kbVars, cancelled, acks,
                   writerVars, readerVars, deq, written, waitEnds, pureVars, console>>

\* socket.send(b"In queue")
SockSend ==
    /\ ~killed /\ spc = "send"
    /\ acks' = acks + 1
    /\ spc' = "recv"
    /\ UNCHANGED <<confVars, ttl, alive, killed, mainVars, tx_q, kbVars, cancelled, nNet,
                   writerVars, readerVars, histVars, inputsLeft, pureVars>>

(* ------------------------------------------------------------------ *)
(* writer                                                              *)
(* ------------------------------------------------------------------ *)
\* while self.alive
WriterCheckAlive ==
    /\ ~killed /\ wpc = "loop"
    /\ wpc' = IF alive THEN "poll" ELSE "done"
    /\ UNCHANGED <<pauseMark, confVars, ttl, alive, killed, mainVars, tx_q, kbVars,
                   cancelled, sockVars, wfrag, wtext, wi, warg, welapsed, wwaited,
                   readerVars, histVars, inputsLeft, pureVars, wvia>>

\* time.sleep(0.05); if not self.tx_q.empty(): c = self.tx_q.get(); text = c
WriterPoll ==
    /\ ~killed /\ wpc = "poll"
    /\ IF tx_q = <<>>
       THEN /\ wpc' = "loop"
            /\ UNCHANGED <<tx_q, wfrag, wtext, wi, wwaited, wvia, deq>>
       ELSE LET g == QGet(tx_q) IN
            /\ tx_q' = g.rest
            /\ wfrag' = g.item
            /\ wtext' = g.item.text
            /\ wi' = 1
            /\ wwaited' = FALSE
            /\ wvia' = <<>>
            /\ deq' = Append(deq, g.item)
            /\ wpc' = "tx"
    /\ UNCHANGED <<pauseMark, confVars, ttl, alive, killed, mainVars, kbVars, cancelled,
                   sockVars, warg, welapsed, readerVars, enq, written, waitEnds,
                   inputsLeft, pureVars, console>>

\* the instance whose tx the writer is in
WInst == tx_transformations[wi]

\* text = transformation.tx(text), up to its return, raise or first blocking call;
\* a raise leaves the loop through the writer's except: alive = False; raise
WriterTx ==
    /\ ~killed /\ wpc = "tx" /\ wi <= Len(tx_transformations)
    /\ wvia' = Append(wvia, WInst.id)
    /\ LET r == TxCall(WInst.cls, wtext) IN
       CASE r.kind = "text" ->
              /\ wtext' = r.text /\ wi' = wi + 1
              /\ UNCHANGED <<wpc, warg, alive, pauseMark>>
         [] r.kind = "pause" ->
              /\ wpc' = "pause"
              /\ pauseMark' = [enq |-> Len(enq), acks |-> acks, console |-> Len(console)]
              /\ UNCHANGED <<wtext, wi, warg, alive>>
         [] r.kind = "wait" ->
              /\ wpc' = "wait_install" /\ warg' = r.text
              /\ UNCHANGED <<wtext, wi, alive, pauseMark>>
         [] r.kind = "raise" ->
              /\ alive' = FALSE /\ wpc' = "done"
              /\ UNCHANGED <<wtext, wi, warg, pauseMark>>
    /\ UNCHANGED <<confVars, ttl, killed, mainVars, tx_q, kbVars, cancelled, sockVars,
                   wfrag, welapsed, wwaited, readerVars, histVars, inputsLeft, pureVars>>

\* ttl_wait_regex: _regex = arg.strip()[1:-1]; self.regex_awaiting = _regex; _start = now
WaitInstall ==
    /\ ~killed /\ wpc = "wait_install"
    /\ ttl' = [ttl EXCEPT ![WInst.id].regex_awaiting = Unquote(warg)]
    /\ welapsed' = 0
    /\ wwaited' = TRUE
    /\ wpc' = "wait_test"
    /\ UNCHANGED <<pauseMark, confVars, alive, killed, mainVars, tx_q, kbVars, cancelled,
                   sockVars, wfrag, wtext, wi, warg, readerVars, histVars, inputsLeft,
                   pureVars, wvia>>

\* while not self.regex_match
WaitTest ==
    /\ ~killed /\ wpc = "wait_test"
    /\ IF ttl[WInst.id].regex_match
       THEN wpc' = "wait_clear" /\ waitEnds' = waitEnds \cup {"match"}
       ELSE wpc' = "wait_sleep" /\ UNCHANGED waitEnds
    /\ UNCHANGED <<pauseMark, confVars, ttl, alive, killed, mainVars, tx_q, kbVars,
                   cancelled, sockVars, wfrag, wtext, wi, warg, welapsed, wwaited,
                   readerVars, enq, deq, written, inputsLeft, pureVars, console, wvia>>

\* a timeout test that never fires
TimedOutNever(k) == FALSE
\* (datetime.utcnow() - _start).total_seconds() > regex_timeout_sec, after k polls
TimedOut(k) == k > TimeoutPolls

\* time.sleep(0.1); if ... > timeout: break
WaitSleep ==
    /\ ~killed /\ wpc = "wait_sleep"
    /\ welapsed' = welapsed + 1
    /\ IF TimedOut(welapsed + 1)
       THEN wpc' = "wait_clear" /\ waitEnds' = waitEnds \cup {"timeout"}
       ELSE wpc' = "wait_test" /\ UNCHANGED waitEnds
    /\ UNCHANGED <<pauseMark, confVars, ttl, alive, killed, mainVars, tx_q, kbVars,
                   cancelled, sockVars, wfrag, wtext, wi, warg, wwaited, readerVars, enq,
                   deq, written, inputsLeft, pureVars, console, wvia>>

\* self.regex_match = False
WaitClearMatch ==
    /\ ~killed /\ wpc = "wait_clear"
    /\ ttl' = [ttl EXCEPT ![WInst.id].regex_match = FALSE]
    /\ wpc' = "wait_clear2"
    /\ UNCHANGED <<pauseMark, confVars, alive, killed, mainVars, tx_q, kbVars, cancelled,
                   sockVars, wfrag, wtext, wi, warg, welapsed, wwaited, readerVars,
                   histVars, inputsLeft, pureVars, wvia>>

\* self.regex_awaiting = ""; finally: return ""
WaitClearAwaiting ==
    /\ ~killed /\ wpc = "wait_clear2"
    /\ ttl' = [ttl EXCEPT ![WInst.id].regex_awaiting = <<>>]
    /\ wtext' = TtlWaitResult(warg)
    /\ wi' = wi + 1
    /\ wpc' = "tx"
    /\ UNCHANGED <<pauseMark, confVars, alive, killed, mainVars, tx_q, kbVars, cancelled,
                   sockVars, wfrag, warg, welapsed, wwaited, readerVars, histVars,
                   inputsLeft, pureVars, wvia>>

\* a sleep that hands the fragment to the device before it returns
PauseEndWrites ==
    /\ ~killed /\ wpc = "pause"
    /\ written' = Append(written, [frag |-> wfrag, out |-> wtext, wait |-> wwaited,
                                  via |-> wvia])
    /\ wtext' = <<>>
    /\ wi' = wi + 1
    /\ wpc' = "tx"
    /\ pauseMark' = NoMark
    /\ UNCHANGED <<confVars, ttl, alive, killed, mainVars, tx_q, kbVars, cancelled,
                   sockVars, wfrag, warg, welapsed, wwaited, wvia, readerVars, enq, deq,
                   waitEnds, console, inputsLeft, pureVars>>

\* ttl_pause: time.sleep(int(arg)) returns; return ""
PauseEnd ==
    /\ ~killed /\ wpc = "pause"
    /\ wtext' = <<>>
    /\ wi' = wi + 1
    /\ wpc' = "tx"
    /\ pauseMark' = NoMark
    /\ UNCHANGED <<confVars, ttl, alive, killed, mainVars, tx_q, kbVars, cancelled,
                   sockVars, wfrag, warg, welapsed, wwaited, wvia, readerVars, histVars,
                   inputsLeft, pureVars>>

\* self.serial.write(self.tx_encoder.encode(text)); self.echo is False
WriterWrite ==
    /\ ~killed /\ wpc = "tx" /\ wi > Len(tx_transformations)
    /\ written' = Append(written, [frag |-> wfrag, out |-> wtext, wait |-> wwaited,
                                  via |-> wvia])
    /\ wpc' = "loop"
    /\ UNCHANGED <<pauseMark, confVars, ttl, alive, killed, mainVars, tx_q, kbVars,
                   cancelled, sockVars, wfrag, wtext, wi, warg, welapsed, wwaited,
                   readerVars, enq, deq, waitEnds, inputsLeft, pureVars, console, wvia>>

\* a writer that ends on the exception and leaves alive as it is
WriterWriteFailQuiet ==
    /\ ~killed /\ wpc = "tx" /\ wi > Len(tx_transformations)
    /\ inputsLeft > 0
    /\ inputsLeft' = inputsLeft - 1
    /\ alive' = alive
    /\ wpc' = "done"
    /\ UNCHANGED <<pauseMark, confVars, ttl, killed, mainVars, tx_q, kbVars, cancelled,
                   sockVars, wfrag, wtext, wi, warg, welapsed, wwaited, readerVars,
                   histVars, pureVars, wvia>>

\* serial.write raises: except: self.alive = False; raise
WriterWriteFail ==
    /\ ~killed /\ wpc = "tx" /\ wi > Len(tx_transformations)
    /\ inputsLeft > 0
    /\ inputsLeft' = inputsLeft - 1
    /\ alive' = FALSE
    /\ wpc' = "done"
    /\ UNCHANGED <<pauseMark, confVars, ttl, killed, mainVars, tx_q, kbVars, cancelled,
                   sockVars, wfrag, wtext, wi, warg, welapsed, wwaited, readerVars,
                   histVars, pureVars, wvia>>

WriterNext ==
    \/ WriterCheckAlive \/ WriterPoll \/ WriterTx \/ WaitInstall \/ WaitTest
    \/ WaitSleep \/ WaitClearMatch \/ WaitClearAwaiting \/ PauseEnd \/ WriterWrite

(* ------------------------------------------------------------------ *)
(* reader                                                              *)
(* ------------------------------------------------------------------ *)
\* while self.alive (self._reader_alive stays True)
ReaderCheckAlive ==
    /\ ~killed /\ rpc = "loop"
    /\ rpc' = IF alive THEN "read" ELSE "done"
    /\ UNCHANGED <<rhist, confVars, ttl, alive, killed, mainVars, tx_q, kbVars, cancelled,
                   sockVars, writerVars, rtext, ri, rlines, histVars, inputsLeft, pureVars,
                   rvia>>

\* data = self.serial.read(...) returns data: raw goes to the console as it is,
\* otherwise text = self.rx_decoder.decode(data) enters the receive loop
ReaderRead ==
    /\ ~killed /\ rpc = "read" /\ inputsLeft > 0
    /\ \E data \in RxChunks :
         IF raw
         THEN /\ console' = Append(console, [text |-> data, via |-> <<>>,
                                             data |-> data, raised |-> {}])
              /\ rpc' = "loop"
              /\ UNCHANGED <<rtext, ri, rhist>>
         ELSE /\ rpc' = "rx" /\ rtext' = data /\ ri' = 1
              /\ rhist' = [data |-> data, raised |-> {}]
              /\ UNCHANGED console
    /\ rvia' = <<>>
    /\ inputsLeft' = inputsLeft - 1
    /\ UNCHANGED <<confVars, ttl, alive, killed, mainVars, tx_q, kbVars, cancelled,
                   sockVars, writerVars, rlines, enq, deq, written, waitEnds, pureVars>>

\* serial.read() returns nothing within its timeout
ReaderReadEmpty ==
    /\ ~killed /\ rpc = "read"
    /\ rpc' = "loop"
    /\ UNCHANGED <<rhist, confVars, ttl, alive, killed, mainVars, tx_q, kbVars, cancelled,
                   sockVars, writerVars, rtext, ri, rlines, histVars, inputsLeft, pureVars,
                   rvia>>

\* serial.read() raises SerialException: alive = False; console.cancel(); raise
ReaderFail ==
    /\ ~killed /\ rpc = "read"
    /\ inputsLeft > 0
    /\ inputsLeft' = inputsLeft - 1
    /\ alive' = FALSE
    /\ cancelled' = TRUE
    /\ rpc' = "done"
    /\ UNCHANGED <<rhist, confVars, ttl, killed, mainVars, tx_q, kbVars, sockVars,
                   writerVars, rtext, ri, rlines, histVars, pureVars, rvia>>

\* the instance whose rx the reader is in
RInst == rx_transformations[ri]

\* TeraTermCommandLine.rx up to its test of self.regex_awaiting != "":
\* [cur_line, lines: the lines to test if a pattern is awaited]
TtlRxLines(cur_line0, text) ==
    LET cur == cur_line0 \o text IN
    IF HasNewline(cur)
    THEN LET lines == Split(cur, <<>>) IN
         [cur_line |-> IF EndsWith(cur, LF) THEN <<>> ELSE lines[Len(lines)],
          lines |-> lines]
    ELSE [cur_line |-> cur, lines |-> <<>>]

\* text = transformation.rx(text) for one instance; TeraTermCommandLine.rx goes
\* on to its loop over the lines when a pattern is awaited
ReaderRx ==
    /\ ~killed /\ rpc = "rx" /\ ri <= Len(rx_transformations)
    /\ rvia' = Append(rvia, RInst.id)
    /\ rtext' = RxCall(RInst.cls, rtext)
    /\ IF RInst.cls = "ttl"
       THEN LET r == TtlRxLines(ttl[RInst.id].cur_line, rtext) IN
            /\ ttl' = [ttl EXCEPT ![RInst.id].cur_line = r.cur_line]
            /\ IF r.lines # <<>> /\ ttl[RInst.id].regex_awaiting # <<>>
               THEN rlines' = r.lines /\ rpc' = "rx_find" /\ UNCHANGED ri
               ELSE ri' = ri + 1 /\ UNCHANGED <<rlines, rpc>>
       ELSE /\ ri' = ri + 1
            /\ UNCHANGED <<ttl, rlines, rpc>>
    /\ UNCHANGED <<rhist, confVars, alive, killed, mainVars, tx_q, kbVars, cancelled,
                   sockVars, writerVars, histVars, inputsLeft, pureVars>>

\* a reader that ends on the exception
ReaderRxRaiseFatal ==
    /\ ~killed /\ rpc = "rx" /\ ri <= Len(rx_transformations)
    /\ RInst.cls = "alias" /\ inputsLeft > 0
    /\ inputsLeft' = inputsLeft - 1
    /\ rhist' = [rhist EXCEPT !.raised = @ \cup {RInst.id}]
    /\ alive' = FALSE
    /\ rpc' = "done"
    /\ UNCHANGED <<confVars, ttl, killed, mainVars, tx_q, kbVars, cancelled, sockVars,
                   writerVars, rtext, ri, rlines, rvia, histVars, pureVars>>

\* transformation.rx(text) raises (Alias.rx: log_file.write fails); the reader's
\* except Exception prints, text keeps its value and the loop goes on
ReaderRxRaise ==
    /\ ~killed /\ rpc = "rx" /\ ri <= Len(rx_transformations)
    /\ RInst.cls = "alias" /\ inputsLeft > 0
    /\ inputsLeft' = inputsLeft - 1
    /\ rvia' = Append(rvia, RInst.id)
    /\ rhist' = [rhist EXCEPT !.raised = @ \cup {RInst.id}]
    /\ ri' = ri + 1
    /\ UNCHANGED <<confVars, ttl, alive, killed, mainVars, tx_q, kbVars, cancelled,
                   sockVars, writerVars, rpc, rtext, rlines, histVars, pureVars>>

\* the loop over the lines moves on: the next line, or rx returns text
RxAdvance ==
    IF Len(rlines) > 1
    THEN rlines' = Tail(rlines) /\ rpc' = "rx_find" /\ UNCHANGED ri
    ELSE rlines' = <<>> /\ rpc' = "rx" /\ ri' = ri + 1

\* _find = re.findall(self.regex_awaiting, line); if len(_find)
RxFind ==
    /\ ~killed /\ rpc = "rx_find"
    /\ IF Matches(ttl[RInst.id].regex_awaiting, Head(rlines))
       THEN rpc' = "rx_set_match" /\ UNCHANGED <<rlines, ri>>
       ELSE RxAdvance
    /\ UNCHANGED <<rhist, confVars, ttl, alive, killed, mainVars, tx_q, kbVars, cancelled,
                   sockVars, writerVars, rtext, histVars, inputsLeft, pureVars, rvia>>

\* self.regex_match = True
RxSetMatch ==
    /\ ~killed /\ rpc = "rx_set_match"
    /\ ttl' = [ttl EXCEPT ![RInst.id].regex_match = TRUE]
    /\ rpc' = "rx_clear"
    /\ UNCHANGED <<rhist, confVars, alive, killed, mainVars, tx_q, kbVars, cancelled,
                   sockVars, writerVars, rtext, ri, rlines, histVars, inputsLeft, pureVars,
                   rvia>>

\* self.regex_awaiting = ""
RxClearAwaiting ==
    /\ ~killed /\ rpc = "rx_clear"
    /\ ttl' = [ttl EXCEPT ![RInst.id].regex_awaiting = <<>>]
    /\ RxAdvance
    /\ UNCHANGED <<rhist, confVars, alive, killed, mainVars, tx_q, kbVars, cancelled,
                   sockVars, writerVars, rtext, histVars, inputsLeft, pureVars, rvia>>

\* self.console.write(text)
ReaderConsole ==
    /\ ~killed /\ rpc = "rx" /\ ri > Len(rx_transformations)
    /\ console' = Append(console, [text |-> rtext, via |-> rvia,
                                   data |-> rhist.data, raised |-> rhist.raised])
    /\ rpc' = "loop"
    /\ UNCHANGED <<rhist, confVars, ttl, alive, killed, mainVars, tx_q, kbVars, cancelled,
                   sockVars, writerVars, rtext, ri, rlines, enq, deq, written, waitEnds,
                   inputsLeft, pureVars, rvia>>

ReaderNext ==
    \/ ReaderCheckAlive \/ ReaderReadEmpty \/ ReaderRx \/ RxFind \/ RxSetMatch
    \/ RxClearAwaiting \/ ReaderConsole

(* ------------------------------------------------------------------ *)
(* The session                                                         *)
(* ------------------------------------------------------------------ *)
Next ==
    \/ Start \/ MainNext \/ JoinInterrupt \/ ShutdownAgain \/ JoinCancelRaises
    \/ KbCheckAlive \/ KbKey \/ KbCancelled
    \/ SockRecv \/ SockSend
    \/ WriterNext \/ WriterWriteFail
    \/ ReaderNext \/ ReaderRead \/ ReaderRxRaise \/ ReaderFail

Spec == Init /\ [][Next]_vars

\* threads are scheduled; keys, requests, device data and device failures are
\* the environment's and need not come
FairSpec ==
    /\ LiveInit /\ [][Next]_vars
    /\ WF_vars(WriterNext) /\ WF_vars(ReaderNext)
    /\ WF_vars(KbCheckAlive) /\ WF_vars(KbCancelled)
    /\ WF_vars(SockSend) /\ WF_vars(Start) /\ WF_vars(MainNext)

(* ------------------------------------------------------------------ *)
(* Properties                                                          *)
(* ------------------------------------------------------------------ *)
\* per producer, the counts grow along a sequence of fragments
InOrder(fs) ==
    \A i, j \in DOMAIN fs : (i < j /\ fs[i].src = fs[j].src) => fs[i].n < fs[j].n
WrittenFrags == [i \in DOMAIN written |-> written[i].frag]

\* C1: of two fragments one producer enqueued in the order A, B, the writer takes
\* A from the queue before B and writes A to the device before B, whatever the
\* other producer and the reader do in between.
C1_ArrivalOrder == InOrder(enq) /\ InOrder(deq) /\ InOrder(WrittenFrags)

\* two fragments of one producer written, one of the other producer as well
C1_Witness ==
    \E i, j, k \in DOMAIN written :
        /\ i < j /\ written[i].frag.src = written[j].frag.src
        /\ written[k].frag.src # written[i].frag.src

\* the pattern is installed and neither a match has been seen by the writer nor
\* the timeout has elapsed
WaitOutstanding == wpc \in {"wait_test", "wait_sleep"}

\* C3: while a wait is outstanding the writer takes nothing from the queue and
\* writes nothing to the device, and what is written for a fragment that went
\* through the wait is the empty text.
C3_WaitBlocksWriter ==
    [][/\ WaitOutstanding => (deq' = deq /\ written' = written)
       /\ \A i \in DOMAIN written' : written'[i].wait => written'[i].out = <<>>]_vars

\* a wait is outstanding while another fragment is queued behind it
C3_Witness == WaitOutstanding /\ tx_q # <<>>

\* C5: at the moment the writer installs the pattern of a wait, regex_match is
\* False.
C5_CleanWaitState ==
    [][(wpc = "wait_install" /\ wpc' = "wait_test")
        => ~ttl'[WInst.id].regex_match]_vars

NoDuplicate(fs) ==
    \A i, j \in DOMAIN fs : (fs[i].src = fs[j].src /\ fs[i].n = fs[j].n) => i = j

\* C2: no fragment is lost.  Every fragment put on the queue is on it or has
\* been taken from it by the writer, once; what is written for a fragment is the
\* transmit pipeline's result for it; and, the writer being scheduled, whenever
\* fragments are queued all that were put are in the end written to the device,
\* unless alive has become False or the process has been terminated (a run has
\* finitely many fragments, so this is every single one being written).
C2_NoCommandLost ==
    /\ [](enq = deq \o tx_q /\ NoDuplicate(enq))
    /\ [](\A i \in DOMAIN written :
            written[i].out = TxChain(tx_transformations, written[i].frag.text).text)
    /\ (tx_q # <<>>) ~> (WrittenFrags = enq \/ ~alive \/ killed)

\* two fragments were queued together and both have been written
C2_Witness == Len(written) = 2 /\ alive /\ tx_q = <<>>

\* C4: a wait that is outstanding ends, on a match the reader recorded or after
\* no more polls than the timeout allows, and the writer is back at the head of
\* its loop (or has ended on a device failure, or the process was terminated).
C4_WaitEnds ==
    /\ [](WaitOutstanding => welapsed <= TimeoutPolls)
    /\ WaitOutstanding ~> (wpc \in {"loop", "done"} \/ killed)

\* a wait has ended on a match and the writer is back at the head of its loop
C4_Witness == "match" \in waitEnds /\ wpc = "loop" /\ wwaited

\* C6: once alive is False the four workers return and join() completes.
C6_TeardownTerminates ==
    (mainPc = "join" /\ ~alive) ~> (JoinComplete \/ killed)

(* ------------------------------------------------------------------ *)
(* The transmit pipeline alone: one line from one origin               *)
(* ------------------------------------------------------------------ *)
BodyChars == {"l", "s"}
\* the texts over BodyChars of length n
RECURSIVE TextsOfLen(_)
TextsOfLen(n) ==
    IF n = 0 THEN {<<>>}
    ELSE {Append(t, c) : t \in TextsOfLen(n - 1), c \in BodyChars}
Bodies == UNION {TextsOfLen(n) : n \in 0..MaxBody}
\* a line: a body, as it is or behind the letters of the marker
PureTexts == Bodies \cup {Marker \o b : b \in Bodies}
\* a key handle_menu_key knows no action for
MenuArg == "l"
\* a network payload (socket_input ends it with "\n"), or a line typed key by
\* key and ended with either terminator key, or ("kbmenu") such a line with
\* the menu key and one more key typed after its first `at` keys
PureInputs ==
    {[origin |-> "net", text |-> t, term |-> "\n", at |-> 0] : t \in PureTexts}
    \cup {[origin |-> "kb", text |-> t, term |-> k, at |-> 0] :
             t \in PureTexts, k \in {"\n", "\r"}}
    \cup UNION {{[origin |-> "kbmenu", text |-> t, term |-> "\n", at |-> p] :
                   p \in 0..Len(t)} : t \in Bodies}

\* the keys typed for a keyboard input
PureKeys(in) ==
    IF in.origin = "kbmenu"
    THEN SubSeq(in.text, 1, in.at) \o <<MenuChar, MenuArg>>
         \o SubSeq(in.text, in.at + 1, Len(in.text)) \o <<in.term>>
    ELSE Append(in.text, in.term)

TxInit ==
    /\ \E f \in FilterConfigs : InitSession(f, FALSE, 0)
    /\ pureIn \in PureInputs
    /\ pureOut = NoPureOut

\* what the producer puts on tx_q for the input, and what the writer's loop over
\* tx_transformations makes of each fragment
PureRun ==
    /\ ~pureOut.done
    /\ LET frags == IF pureIn.origin = "net"
                    THEN <<SocketFragment(pureIn.text)>>
                    ELSE KbRun(Marker, FALSE, PureKeys(pureIn), <<>>)
       IN  pureOut' = [done |-> TRUE, frags |-> frags,
                       outs |-> [i \in DOMAIN frags |->
                                   TxChain(tx_transformations, frags[i]).text]]
    /\ UNCHANGED <<confVars, ttl, alive, killed, mainVars, tx_q, kbVars, cancelled,
                   sockVars, writerVars, readerVars, inputsLeft, histVars, pureIn>>

TxSpec == TxInit /\ [][PureRun]_vars

RECURSIVE Concat(_)
Concat(ts) == IF ts = <<>> THEN <<>> ELSE Head(ts) \o Concat(Tail(ts))

\* C7: a network command that is a name of the alias table is transmitted as
\* the name's expansion and the terminator, with no backspace.
C7_NetAlias ==
    (pureOut.done /\ pureIn.origin = "net" /\ pureIn.text \in DOMAIN AliasDict)
        => pureOut.outs = <<AliasDict[pureIn.text] \o LF>>

\* C8: a name of the alias table typed key by key and ended with a terminator
\* key: the reconstructed line is transmitted as one backspace per character of
\* the name, the expansion and the terminator.
C8_KbAlias ==
    (pureOut.done /\ pureIn.origin = "kb" /\ pureIn.text \in DOMAIN AliasDict)
        => pureOut.outs[Len(pureOut.outs)]
             = Repeat(BS, Len(pureIn.text)) \o AliasDict[pureIn.text] \o LF

\* C9: a line that is no name of the alias table reaches the device unchanged:
\* as a network command the text and the terminator, typed on the keyboard the
\* typed characters and the terminator, nothing added, doubled or dropped.
C9_UnknownUnchanged ==
    (pureOut.done /\ pureIn.origin \in {"net", "kb"}
     /\ pureIn.text \notin DOMAIN AliasDict)
        => IF pureIn.origin = "net"
           THEN pureOut.outs = <<pureIn.text \o LF>>
           ELSE Concat(pureOut.outs) = pureIn.text \o LF

(* ------------------------------------------------------------------ *)
(* The session under every configuration                               *)
(* ------------------------------------------------------------------ *)
ConfSpec == ConfInit /\ [][Next]_vars

InstIds(chain) == [i \in DOMAIN chain |-> chain[i].id]

\* C10 as claimed: the receive chain is the transmit chain's instances in reverse
\* order; every fragment written went through tx in chain order and every text
\* the reader passed to the console went through rx in reverse chain order.
C10_ReverseChain ==
    /\ rx_transformations = Reverse(tx_transformations)
    /\ \A i \in DOMAIN written : written[i].via = InstIds(tx_transformations)
    /\ \A i \in DOMAIN console : console[i].via = Reverse(InstIds(tx_transformations))

\* C10 as amended: the same, the reader's part when raw is off (with raw on the
\* reader passes the data to the console through no rx at all).
C10_ReverseChainUnlessRaw ==
    /\ rx_transformations = Reverse(tx_transformations)
    /\ InstIds(tx_transformations) = [i \in 1..(Len(filters) + 1) |-> i]
    /\ \A i \in DOMAIN written : written[i].via = InstIds(tx_transformations)
    /\ \A i \in DOMAIN console :
         console[i].via = IF raw THEN <<>> ELSE Reverse(InstIds(tx_transformations))

\* raw off: a fragment has been written and a text has reached the console
C10_Witness == ~raw /\ written # <<>> /\ console # <<>>

(* ------------------------------------------------------------------ *)
(* pause                                                               *)
(* ------------------------------------------------------------------ *)
\* C11: while the writer is inside pause it takes nothing from the queue and
\* writes nothing to the device, and no other worker waits for it: a key that
\* comes is handled, a request that comes is received, put on the queue and
\* acknowledged, and the reader's next step can be taken.
C11_PauseBlocksWriterOnly ==
    /\ [][wpc = "pause" => (written' = written /\ deq' = deq)]_vars
    /\ []((wpc = "pause" /\ ~killed) =>
            /\ (kpc = "getkey" /\ inputsLeft > 0) => ENABLED KbKey
            /\ (spc = "recv" /\ inputsLeft > 0) => ENABLED SockRecv
            /\ (spc = "send") => ENABLED SockSend
            /\ (rpc = "read" /\ inputsLeft > 0) => ENABLED ReaderRead
            /\ (rpc \in {"loop", "rx", "rx_find", "rx_set_match", "rx_clear"})
                 => ENABLED ReaderNext)

\* the writer is inside pause, and since the pause began a fragment has been put
\* on the queue, a request acknowledged and a text passed to the console
C11_Witness ==
    /\ wpc = "pause"
    /\ Len(enq) > pauseMark.enq
    /\ acks > pauseMark.acks
    /\ Len(console) > pauseMark.console

(* ------------------------------------------------------------------ *)
(* Failures                                                            *)
(* ------------------------------------------------------------------ *)
\* the writer is about to call a tx that raises on the text it has
TxRaises ==
    /\ wpc = "tx" /\ wi <= Len(tx_transformations)
    /\ TxCall(WInst.cls, wtext).kind = "raise"

\* C12: a script command tx cannot parse is not fatal: the writer's step on it
\* leaves alive as it is and the writer goes on with its loop.
C12_MalformedNonFatal ==
    [][(TxRaises /\ wpc' # wpc) => (alive' = alive /\ wpc' # "done")]_vars

\* C13: an rx that raises does not end the reader and leaves alive as it is;
\* the text goes on as it stood to the transforms that remain and to the
\* console, and what is read afterwards is processed as well.
C13_RxFailureIsolated ==
    /\ [][rhist'.raised # rhist.raised /\ rhist'.raised # {}
            => (alive' = alive /\ rpc' = "rx" /\ rtext' = rtext /\ ri' = ri + 1)]_vars
    /\ [](\A i \in DOMAIN console :
            /\ console[i].raised # {} => console[i].via = InstIds(rx_transformations)
            /\ ~raw => console[i].text
                         = RxChain(rx_transformations, console[i].data, console[i].raised))

\* a text on which an rx raised has reached the console, and a text read after
\* it has reached the console as well
C13_Witness ==
    \E i, j \in DOMAIN console :
        i < j /\ console[i].raised # {} /\ console[j].raised = {}

(* ------------------------------------------------------------------ *)
(* The network listener's replies                                      *)
(* ------------------------------------------------------------------ *)
\* C14: every request received is answered by one reply, sent after the
\* request's fragment has been put on the queue; the listener is then back at
\* its receive.
C14_OneAckPerRequest ==
    /\ acks <= nNet
    /\ spc \in {"recv", "done"} => acks = nNet
    /\ spc = "send" =>
         /\ acks = nNet - 1
         /\ \E i \in DOMAIN enq : enq[i].src = "net" /\ enq[i].n = nNet

(* ------------------------------------------------------------------ *)
(* Teardown                                                            *)
(* ------------------------------------------------------------------ *)
\* C15: the shutdown sequence run once more on a session it has already closed
\* raises nothing and changes nothing: the device and the log file are released
\* once each, and a step of the second join() and close() leaves every field as
\* it was.
C15_ShutdownIdempotent ==
    /\ [](mainPc # "error")
    /\ [](releases.serial <= 1 /\ releases.log <= 1)
    /\ [][(shutdowns >= 1 /\ mainPc' # "exited")
            => UNCHANGED <<confVars, ttl, alive, killed, serialOpen, logOpen, releases,
                           cancelReads, tx_q, kbVars, cancelled, sockVars, writerVars,
                           readerVars, histVars>>]_vars

\* C18: the read is cancelled only once the keyboard, socket and transmitter
\* threads have returned, and the device is closed only once the receiver
\* thread has returned as well, also when the first join() was interrupted.
C18_TeardownOrder ==
    /\ [][cancelReads' # cancelReads
            => (kpc = "done" /\ spc = "done" /\ wpc = "done")]_vars
    /\ [](~serialOpen => (kpc = "done" /\ spc = "done" /\ wpc = "done" /\ rpc = "done"))

\* the device has been closed after a first join() that was interrupted before
\* it came to cancel the read
C18_Witness == ~serialOpen /\ cancelReads = 1

(* ------------------------------------------------------------------ *)
(* The two shapes of a fragment                                        *)
(* ------------------------------------------------------------------ *)
\* C16: a network payload is never taken for a keyboard line: what is written
\* for it holds no backspace, and a payload that is no name of the alias table
\* is written as it came, with its terminator.
C16_NetShapeA ==
    (pureOut.done /\ pureIn.origin = "net")
        => /\ \A i \in DOMAIN pureOut.outs : BS \notin Range(pureOut.outs[i])
           /\ pureIn.text \notin DOMAIN AliasDict
                => pureOut.outs = <<pureIn.text \o LF>>

\* C19: the menu key and the key after it are neither put on the queue nor
\* added to the line: the keys of a line with a menu action in between are put
\* on the queue one by one, then the line as if the action had not been typed,
\* and an alias name typed that way is resolved.
C19_KeyRoutes ==
    (pureOut.done /\ pureIn.origin = "kbmenu")
        => /\ pureOut.frags = [i \in 1..Len(pureIn.text) |-> <<pureIn.text[i]>>]
                               \o <<Marker \o pureIn.text \o <<pureIn.term>>>>
           /\ pureIn.text \in DOMAIN AliasDict
                => pureOut.outs[Len(pureOut.outs)]
                     = Repeat(BS, Len(pureIn.text)) \o AliasDict[pureIn.text] \o LF

\* C20: what is written for a line typed on the keyboard, whichever terminator
\* key ended it, does not contain the marker.
C20_MarkerNeverWritten ==
    (pureOut.done /\ pureIn.origin = "kb")
        => ~Contains(pureOut.outs[Len(pureOut.outs)], Marker)

\* C17: a failure of the device ends the session's running: when serial.read
\* raises in the reader, or a tx or serial.write raises in the writer, alive
\* becomes False and that thread ends; and alive, once False after start(),
\* stays False.
C17_DeviceFailureEndsRunning ==
    /\ [][(TxRaises /\ wpc' # wpc) => (~alive' /\ wpc' = "done")]_vars
    /\ [][(wpc = "tx" /\ wpc' = "done") => ~alive']_vars
    /\ [][(rpc = "read" /\ rpc' = "done") => ~alive']_vars
    /\ [][(~alive /\ mainPc # "created") => ~alive']_vars

\* the writer has ended on a failure with the reader still in its loop, and
\* alive is False
C17_Witness == ~alive /\ wpc = "done" /\ rpc \notin {"idle", "done"} /\ deq # <<>>

====
